---- MODULE Spec2Model ----
(***************************************************************************)
(* Model of golang-todo-cli (src/main.go): a command-line task list kept   *)
(* in tasks.json.  One action is one invocation of the program: main       *)
(* loads the file, applies one operation and saves the list again.         *)
(*                                                                         *)
(* Strings.  A task text is kept run-length encoded: a sequence of runs    *)
(* [ch, n] meaning n copies of the character ch, adjacent runs having      *)
(* different characters.  "ya" and "YA" stand for the Cyrillic letters     *)
(* U+044F and U+042F, which take two bytes each in UTF-8.  A timestamp     *)
(* string is <<t>> for the second t of the clock, the empty string <<>>.   *)
(* A command-line id argument is the sequence of its characters.           *)
(***************************************************************************)
EXTENDS Integers, Sequences, FiniteSets, TLC

\* ---------------------------------------------------------------- bounds
MaxOps == 4      \* invocations of the program in one behaviour
MaxTime == 2     \* last second of the wall clock

\* ------------------------------------------------------------- constants
maxTaskLength == 200

\* ------------------------------------------------------------------- data
EmptyStr == <<>>

\* one invocation of the program: the command, its id argument, the id it
\* worked on, its text argument and how it ended
Call(cmd, strId, id, content, out) ==
  [cmd |-> cmd, strId |-> strId, id |-> id, content |-> content, out |-> out]

Brief(c) == [cmd |-> c.cmd, out |-> c.out]

\* what an operation leaves: the list, the outcome and the id it worked on
Result(t1, out, id) == [id |-> id, out |-> out, t1 |-> t1]

\* type Task struct
Task(id, content, done, createdAt, completedAt) ==
  [Id |-> id, Content |-> content, Done |-> done, CreatedAt |-> createdAt,
   CompletedAt |-> completedAt]

\* type TodoList struct; Tasks is a slice, which may be nil
TodoList(tasks, isNil, nextId) ==
  [Tasks |-> tasks, TasksNil |-> isNil, NextId |-> nextId]

\* ---------------------------------------------------------------- strings

Run(c, k) == <<[ch |-> c, n |-> k]>>

\* bytes of one character in UTF-8; "xff" is a byte that is not valid UTF-8,
\* "ufffd" the replacement character U+FFFD
Width(c) == CASE c \in {"ya", "YA"} -> 2
              [] c = "ufffd" -> 3
              [] OTHER -> 1

\* simple case folding of one character, as strings.EqualFold applies it;
\* an invalid byte is decoded as utf8.RuneError, which is U+FFFD
FoldCh(c) == CASE c = "A" -> "a"
               [] c = "YA" -> "ya"
               [] c = "xff" -> "ufffd"
               [] OTHER -> c

RECURSIVE ByteLen(_)
\* len(s) of Go: the number of bytes
ByteLen(s) == IF s = <<>> THEN 0
              ELSE s[1].n * Width(s[1].ch) + ByteLen(Tail(s))

RECURSIVE CharLen(_)
\* the number of characters (code points) of s
CharLen(s) == IF s = <<>> THEN 0 ELSE s[1].n + CharLen(Tail(s))

RECURSIVE Fold(_)
\* s with every character case-folded, adjacent equal runs merged
Fold(s) ==
  IF s = <<>> THEN <<>>
  ELSE LET rest == Fold(Tail(s))
           c == FoldCh(s[1].ch)
       IN IF rest # <<>> /\ rest[1].ch = c
          THEN Run(c, s[1].n + rest[1].n) \o Tail(rest)
          ELSE Run(c, s[1].n) \o rest

EqualFold(s, t) == Fold(s) = Fold(t)

\* time.Now().Format("2006-01-02 15:04:05") at second t
Format(t) == <<t>>

DigitOf == ("0" :> 0) @@ ("1" :> 1) @@ ("2" :> 2) @@ ("3" :> 3) @@ ("4" :> 4)

RECURSIVE DigitsVal(_)
DigitsVal(s) == IF s = <<>> THEN 0
                ELSE 10 * DigitsVal(SubSeq(s, 1, Len(s) - 1)) + DigitOf[s[Len(s)]]

\* strconv.Atoi: optional sign, then one or more decimal digits
Atoi(s) ==
  LET signed == s # <<>> /\ s[1] \in {"+", "-"}
      body == IF signed THEN Tail(s) ELSE s
  IN IF body = <<>> \/ \E i \in 1..Len(body) : body[i] \notin DOMAIN DigitOf
     THEN [ok |-> FALSE, val |-> 0]
     ELSE [ok |-> TRUE,
           val |-> IF signed /\ s[1] = "-" THEN 0 - DigitsVal(body) ELSE DigitsVal(body)]

\* ----------------------------------------------------------------- inputs
Contents ==
  { EmptyStr, Run("a", 1), Run("A", 1),
    Run("a", maxTaskLength), Run("a", maxTaskLength + 1),
    Run("ya", maxTaskLength) }

\* a text with a byte that is not valid UTF-8, as a shell can pass it
RawContents == { Run("xff", 1) }

StrIds == { <<"1">>, <<"+", "2">>, <<"x">> }

\* the arguments after the command: none, or an id (and what follows it)
IdArgs == { <<>> } \cup { <<s>> : s \in StrIds }

\* ------------------------------------------------------------ persistence
NoFile == <<>>

RECURSIVE ToValidUTF8(_)
\* a string as encoding/json writes it: every byte that is not valid UTF-8
\* is replaced by U+FFFD
ToValidUTF8(s) ==
  IF s = <<>> THEN <<>>
  ELSE LET rest == ToValidUTF8(Tail(s))
           c == IF s[1].ch = "xff" THEN "ufffd" ELSE s[1].ch
       IN IF rest # <<>> /\ rest[1].ch = c
          THEN Run(c, s[1].n + rest[1].n) \o Tail(rest)
          ELSE Run(c, s[1].n) \o rest

\* a Task as a JSON object; completed_at is left out when empty (omitempty)
MarshalTask(t) ==
  IF t.CompletedAt = EmptyStr
  THEN [id |-> t.Id, content |-> ToValidUTF8(t.Content), done |-> t.Done,
        created_at |-> t.CreatedAt]
  ELSE [id |-> t.Id, content |-> ToValidUTF8(t.Content), done |-> t.Done,
        created_at |-> t.CreatedAt, completed_at |-> t.CompletedAt]

\* a JSON object as a Task; a missing completed_at leaves the zero value
UnmarshalTask(o) ==
  Task(o.id, o.content, o.done, o.created_at,
       IF "completed_at" \in DOMAIN o THEN o.completed_at ELSE EmptyStr)

\* json.MarshalIndent of a TodoList: a nil slice is written as null
Marshal(t1) ==
  [tasks |-> [null |-> t1.TasksNil,
              items |-> [i \in 1..Len(t1.Tasks) |-> MarshalTask(t1.Tasks[i])]],
   next_id |-> t1.NextId]

\* json.Unmarshal into a zero TodoList
Unmarshal(doc) ==
  TodoList([i \in 1..Len(doc.tasks.items) |-> UnmarshalTask(doc.tasks.items[i])],
           doc.tasks.null,
           doc.next_id)

\* the list main works on: a fresh one when tasks.json does not exist
loadTasks(f) ==
  IF f = NoFile THEN TodoList(<<>>, TRUE, 1)
  ELSE Unmarshal(f[1])

\* the content of tasks.json after os.WriteFile
saveTask(t1) == <<Marshal(t1)>>

\* ------------------------------------------------------------- operations
parseTaskId(strId) == Atoi(strId)

\* index of the first task with this id, -1 when there is none
findTaskIndex(t1, id) ==
  IF \E i \in 1..Len(t1.Tasks) : t1.Tasks[i].Id = id
  THEN CHOOSE i \in 1..Len(t1.Tasks) :
         /\ t1.Tasks[i].Id = id
         /\ \A j \in 1..(i - 1) : t1.Tasks[j].Id # id
  ELSE -1

isDuplicateTask_exact(t1, content) ==
  \E i \in 1..Len(t1.Tasks) : t1.Tasks[i].Content = content

isDuplicateTask(t1, content) ==
  \E i \in 1..Len(t1.Tasks) : EqualFold(t1.Tasks[i].Content, content)

addTask_noIncrement(t1, content, t) ==
  IF isDuplicateTask(t1, content) THEN Result(t1, "duplicate", 0)
  ELSE IF ByteLen(content) > maxTaskLength THEN Result(t1, "too_long", 0)
  ELSE Result([t1 EXCEPT !.Tasks = Append(@, Task(t1.NextId, content, FALSE,
                                                  Format(t), EmptyStr)),
                         !.TasksNil = FALSE],
              "added", t1.NextId)

addTask(t1, content, t) ==
  IF isDuplicateTask(t1, content) THEN Result(t1, "duplicate", 0)
  ELSE IF ByteLen(content) > maxTaskLength THEN Result(t1, "too_long", 0)
  ELSE Result([t1 EXCEPT !.Tasks = Append(@, Task(t1.NextId, content, FALSE,
                                                  Format(t), EmptyStr)),
                         !.TasksNil = FALSE,
                         !.NextId = @ + 1],
              "added", t1.NextId)

toggleTask_keepCompletedAt(t1, strId, t) ==
  LET p == parseTaskId(strId)
      index == findTaskIndex(t1, p.val)
  IN IF ~p.ok THEN Result(t1, "invalid_id", 0)
     ELSE IF index = -1 THEN Result(t1, "not_found", p.val)
     ELSE LET done == ~t1.Tasks[index].Done
          IN Result([t1 EXCEPT !.Tasks[index].Done = done,
                               !.Tasks[index].CompletedAt =
                                  IF done THEN Format(t) ELSE @],
                    "toggled", p.val)

toggleTask(t1, strId, t) ==
  LET p == parseTaskId(strId)
      index == findTaskIndex(t1, p.val)
  IN IF ~p.ok THEN Result(t1, "invalid_id", 0)
     ELSE IF index = -1 THEN Result(t1, "not_found", p.val)
     ELSE LET done == ~t1.Tasks[index].Done
          IN Result([t1 EXCEPT !.Tasks[index].Done = done,
                               !.Tasks[index].CompletedAt =
                                  IF done THEN Format(t) ELSE EmptyStr],
                    "toggled", p.val)

editTask_ignoreSelf(t1, strId, newContent) ==
  LET p == parseTaskId(strId)
      index == findTaskIndex(t1, p.val)
  IN IF ~p.ok THEN Result(t1, "invalid_id", 0)
     ELSE IF index = -1 THEN Result(t1, "not_found", p.val)
     ELSE IF newContent = EmptyStr THEN Result(t1, "empty", p.val)
     ELSE IF \E i \in 1..Len(t1.Tasks) :
                i # index /\ EqualFold(t1.Tasks[i].Content, newContent)
          THEN Result(t1, "duplicate", p.val)
     ELSE Result([t1 EXCEPT !.Tasks[index].Content = newContent], "edited", p.val)

editTask(t1, strId, newContent) ==
  LET p == parseTaskId(strId)
      index == findTaskIndex(t1, p.val)
  IN IF ~p.ok THEN Result(t1, "invalid_id", 0)
     ELSE IF index = -1 THEN Result(t1, "not_found", p.val)
     ELSE IF newContent = EmptyStr THEN Result(t1, "empty", p.val)
     ELSE IF isDuplicateTask(t1, newContent) THEN Result(t1, "duplicate", p.val)
     ELSE Result([t1 EXCEPT !.Tasks[index].Content = newContent], "edited", p.val)

\* t1.Tasks without the element at index
RemoveAt(s, index) == SubSeq(s, 1, index - 1) \o SubSeq(s, index + 1, Len(s))

deleteTask_truncate(t1, strId) ==
  LET p == parseTaskId(strId)
      index == findTaskIndex(t1, p.val)
  IN IF ~p.ok THEN Result(t1, "invalid_id", 0)
     ELSE IF index = -1 THEN Result(t1, "not_found", p.val)
     ELSE Result([t1 EXCEPT !.Tasks = SubSeq(@, 1, index - 1)], "deleted", p.val)

deleteTask(t1, strId) ==
  LET p == parseTaskId(strId)
      index == findTaskIndex(t1, p.val)
  IN IF ~p.ok THEN Result(t1, "invalid_id", 0)
     ELSE IF index = -1 THEN Result(t1, "not_found", p.val)
     ELSE Result([t1 EXCEPT !.Tasks = RemoveAt(@, index)], "deleted", p.val)

clearAllTasks_keepTasks(t1) ==
  Result([t1 EXCEPT !.NextId = 1], "cleared", 0)

clearAllTasks_keepNextId(t1) ==
  Result([t1 EXCEPT !.Tasks = <<>>, !.TasksNil = FALSE], "cleared", 0)

clearAllTasks(t1) ==
  Result(TodoList(<<>>, FALSE, 1), "cleared", 0)

completeAllTasks_refreshAll(t1, t) ==
  Result([t1 EXCEPT !.Tasks =
            [i \in 1..Len(t1.Tasks) |->
               [t1.Tasks[i] EXCEPT !.Done = TRUE, !.CompletedAt = Format(t)]]],
         "completed", 0)

completeAllTasks_noTimestamp(t1, t) ==
  Result([t1 EXCEPT !.Tasks =
            [i \in 1..Len(t1.Tasks) |->
               IF ~t1.Tasks[i].Done
               THEN [t1.Tasks[i] EXCEPT !.Done = TRUE]
               ELSE t1.Tasks[i]]],
         "completed", 0)

completeAllTasks(t1, t) ==
  Result([t1 EXCEPT !.Tasks =
            [i \in 1..Len(t1.Tasks) |->
               IF ~t1.Tasks[i].Done
               THEN [t1.Tasks[i] EXCEPT !.Done = TRUE, !.CompletedAt = Format(t)]
               ELSE t1.Tasks[i]]],
         "completed", 0)

\* ------------------------------------------------------------------ state
VARIABLES
  file,        \* tasks.json: NoFile, or <<document>>
  now,         \* the wall clock, in seconds
  ops,         \* invocations so far
  preFile,     \* tasks.json as it was before the last invocation
  last,        \* the last invocation: command, arguments, outcome, id
  prev,        \* the invocation before the last one
  assigned,    \* the ids addTask has assigned, oldest first
  epoch,       \* Len(assigned) at the last clear-all
  addCalls,    \* the texts of the add invocations, while no other command ran
  mem,         \* the list main held when it last called saveTask
  rawArgs      \* whether the shell passes texts that are not valid UTF-8

vars == <<file, now, ops, preFile, last, prev, assigned, epoch, addCalls, mem,
          rawArgs>>

\* the texts strings.Join(args, " ") can give
ArgContents == IF rawArgs THEN Contents \cup RawContents ELSE Contents

Init ==
  /\ file = NoFile
  /\ now = 1
  /\ ops = 0
  /\ preFile = NoFile
  /\ last = Call("none", <<>>, 0, EmptyStr, "none")
  /\ prev = Brief(last)
  /\ assigned = <<>>
  /\ epoch = 0
  /\ addCalls = [only |-> TRUE, texts |-> <<>>]
  /\ mem = loadTasks(NoFile)
  /\ rawArgs = FALSE

\* the same start, the shell passing any bytes
InitRaw ==
  /\ file = NoFile
  /\ now = 1
  /\ ops = 0
  /\ preFile = NoFile
  /\ last = Call("none", <<>>, 0, EmptyStr, "none")
  /\ prev = Brief(last)
  /\ assigned = <<>>
  /\ epoch = 0
  /\ addCalls = [only |-> TRUE, texts |-> <<>>]
  /\ mem = loadTasks(NoFile)
  /\ rawArgs = TRUE

\* what every invocation records
Invoke(call, newFile, t1) ==
  /\ ops < MaxOps
  /\ ops' = ops + 1
  /\ preFile' = file
  /\ file' = newFile
  /\ prev' = Brief(last)
  /\ last' = call
  /\ now' = now
  /\ assigned' = IF call.cmd = "add" /\ call.out = "added"
                 THEN Append(assigned, call.id) ELSE assigned
  /\ epoch' = IF call.cmd = "clear-all" THEN Len(assigned) ELSE epoch
  /\ addCalls' = IF call.cmd = "add" /\ addCalls.only
                 THEN [addCalls EXCEPT !.texts = Append(@, call.content)]
                 ELSE [only |-> FALSE, texts |-> <<>>]
  /\ mem' = t1
  /\ UNCHANGED rawArgs

\* case "add": content is the arguments joined by spaces; an empty one ends
\* the invocation before the load
CmdAdd ==
  \E content \in ArgContents :
    IF content = EmptyStr
    THEN Invoke(Call("add", <<>>, 0, content, "usage"), file, mem)
    ELSE LET r == addTask(loadTasks(file), content, now)
         IN Invoke(Call("add", <<>>, r.id, content, r.out), saveTask(r.t1), r.t1)

\* case "toggle"
CmdToggle ==
  \E args \in IdArgs :
    IF Len(args) = 0
    THEN Invoke(Call("toggle", args, 0, EmptyStr, "usage"), file, mem)
    ELSE LET r == toggleTask(loadTasks(file), args[1], now)
         IN Invoke(Call("toggle", args[1], r.id, EmptyStr, r.out), saveTask(r.t1), r.t1)

\* case "delete"
CmdDelete ==
  \E args \in IdArgs :
    IF Len(args) = 0
    THEN Invoke(Call("delete", args, 0, EmptyStr, "usage"), file, mem)
    ELSE LET r == deleteTask(loadTasks(file), args[1])
         IN Invoke(Call("delete", args[1], r.id, EmptyStr, r.out), saveTask(r.t1), r.t1)

\* case "clear-all"
CmdClearAll ==
  \E t1 \in { loadTasks(file) } :
    LET r == clearAllTasks(t1)
    IN Invoke(Call("clear-all", <<>>, r.id, EmptyStr, r.out), saveTask(r.t1), r.t1)

\* case "edit": fewer than two arguments end the invocation before the load;
\* newContent is the arguments after the id joined by spaces
CmdEdit ==
  \E args \in IdArgs :
    IF Len(args) = 0
    THEN Invoke(Call("edit", args, 0, EmptyStr, "usage"), file, mem)
    ELSE \E newContent \in ArgContents :
           LET r == editTask(loadTasks(file), args[1], newContent)
           IN Invoke(Call("edit", args[1], r.id, newContent, r.out), saveTask(r.t1), r.t1)

\* case "complete-all"
CmdCompleteAll ==
  \E t1 \in { loadTasks(file) } :
    LET r == completeAllTasks(t1, now)
    IN Invoke(Call("complete-all", <<>>, r.id, EmptyStr, r.out), saveTask(r.t1), r.t1)

\* a second passes between two invocations
Tick ==
  /\ now < MaxTime
  /\ now' = now + 1
  /\ UNCHANGED <<file, ops, preFile, last, prev, assigned, epoch, addCalls, mem, rawArgs>>

Next ==
  \/ CmdAdd
  \/ CmdToggle
  \/ CmdDelete
  \/ CmdClearAll
  \/ CmdEdit
  \/ CmdCompleteAll
  \/ Tick

Spec == Init /\ [][Next]_vars

SpecRaw == InitRaw /\ [][Next]_vars

\* ----------------------------------------------------------------- claims
Coll == loadTasks(file)        \* the collection now
Pre == loadTasks(preFile)      \* the collection before the last invocation

IdsOf(t1) == { t1.Tasks[i].Id : i \in 1..Len(t1.Tasks) }

SameCollection(a, b) == a.Tasks = b.Tasks /\ a.NextId = b.NextId

\* C1, as stated: every id add assigns is positive, unique within the
\* collection, greater than every id assigned earlier in the whole sequence of
\* invocations, and never assigned twice.
C1_IdsNeverReused ==
  /\ \A i \in 1..Len(assigned) : assigned[i] >= 1
  /\ \A i, j \in 1..Len(assigned) : i < j => assigned[i] < assigned[j]
  /\ \A i, j \in 1..Len(Coll.Tasks) : i # j => Coll.Tasks[i].Id # Coll.Tasks[j].Id

\* C1, amended: every id add assigns is positive and unique within the
\* collection, and is greater than every id assigned earlier since the most
\* recent clear-all (or since the start), whether or not the task that held
\* the earlier id was deleted; clear-all starts the numbering again.
C1_IdsIncreaseSinceClear ==
  /\ \A i \in 1..Len(assigned) : assigned[i] >= 1
  /\ \A i, j \in (epoch + 1)..Len(assigned) : i < j => assigned[i] < assigned[j]
  /\ \A i, j \in 1..Len(Coll.Tasks) : i # j => Coll.Tasks[i].Id # Coll.Tasks[j].Id
  /\ IdsOf(Coll) \subseteq { assigned[k] : k \in (epoch + 1)..Len(assigned) }

\* an id was assigned, its task deleted, and a later add assigned a new id
C1_Witness ==
  /\ Len(assigned) >= epoch + 2
  /\ assigned[epoch + 1] \notin IdsOf(Coll)
  /\ assigned[Len(assigned)] \in IdsOf(Coll)

\* C2: NextId is at least 1 and greater than the id of every task.
C2_NextIdAboveIds ==
  /\ Coll.NextId >= 1
  /\ \A i \in 1..Len(Coll.Tasks) : Coll.Tasks[i].Id < Coll.NextId

\* a task was deleted and another one is still in the collection
C2_Witness ==
  /\ last.cmd = "delete" /\ last.out = "deleted"
  /\ Len(Coll.Tasks) >= 1

\* C3: every task's content is non-empty and at most 200 long; add and edit
\* reject a content that is empty or longer than 200 and leave the collection
\* unchanged.
C3_ContentWithinLimit ==
  /\ \A i \in 1..Len(Coll.Tasks) :
       /\ Coll.Tasks[i].Content # EmptyStr
       /\ CharLen(Coll.Tasks[i].Content) <= maxTaskLength
  /\ ( /\ last.cmd \in {"add", "edit"}
       /\ last.content = EmptyStr \/ CharLen(last.content) > maxTaskLength )
     => /\ last.out \notin {"added", "edited"}
        /\ SameCollection(Coll, Pre)

\* C4: an invocation that fails on its id or on a content rule leaves the
\* storage file as it was, also when there was no file.
C4_FailedInvocationKeepsStorage ==
  ( /\ last.cmd \in {"add", "toggle", "edit", "delete"}
    /\ last.out \in {"invalid_id", "not_found", "empty", "too_long", "duplicate"} )
  => file = preFile

TaskOf(t1, id) == t1.Tasks[CHOOSE i \in 1..Len(t1.Tasks) : t1.Tasks[i].Id = id]

\* the step is the second of two successful toggles of the same task in a row
SecondToggle ==
  /\ ops' = ops + 1
  /\ last.cmd = "toggle" /\ last.out = "toggled"
  /\ last'.cmd = "toggle" /\ last'.out = "toggled"
  /\ last'.id = last.id

\* C5, as stated: after two toggles in a row the task's done and completedAt
\* are what they were before the first one.
C5_ToggleTwiceRestores ==
  [][SecondToggle =>
       LET before == TaskOf(Pre, last.id)
           after == TaskOf(loadTasks(file'), last.id)
       IN after.Done = before.Done /\ after.CompletedAt = before.CompletedAt]_vars

\* C5, amended: after two toggles in a row done is what it was before the first
\* one; completedAt is what it was if the task was not done, and is the time of
\* the second toggle if the task was done.
C5_ToggleTwiceRestoresDone ==
  [][SecondToggle =>
       LET before == TaskOf(Pre, last.id)
           after == TaskOf(loadTasks(file'), last.id)
       IN /\ after.Done = before.Done
          /\ ~before.Done => after.CompletedAt = before.CompletedAt
          /\ before.Done => after.CompletedAt = Format(now)]_vars

\* the only task was done, has been toggled twice in a row, and is done again
C5_Witness ==
  /\ prev.cmd = "toggle" /\ prev.out = "toggled"
  /\ last.cmd = "toggle" /\ last.out = "toggled"
  /\ Len(Pre.Tasks) = 1
  /\ Coll.Tasks[1].Done

\* C6: when only adds ran, with non-empty contents of at most 200 characters
\* that differ pairwise under case folding, the i-th add got id i, done = false,
\* and was appended at the end.
C6_DistinctAddsGetIds ==
  LET texts == addCalls.texts
  IN ( /\ addCalls.only
       /\ \A i \in 1..Len(texts) :
            texts[i] # EmptyStr /\ CharLen(texts[i]) <= maxTaskLength
       /\ \A i, j \in 1..Len(texts) : i < j => ~EqualFold(texts[i], texts[j]) )
     => /\ Len(Coll.Tasks) = Len(texts)
        /\ \A i \in 1..Len(texts) :
             /\ Coll.Tasks[i].Id = i
             /\ Coll.Tasks[i].Content = texts[i]
             /\ ~Coll.Tasks[i].Done

\* C7: add of a content that equals an existing task's content under case
\* folding is rejected as a duplicate; tasks and NextId stay as they were.
C7_DuplicateAddRejected ==
  ( /\ last.cmd = "add"
    /\ \E i \in 1..Len(Pre.Tasks) : EqualFold(Pre.Tasks[i].Content, last.content) )
  => /\ last.out = "duplicate"
     /\ Coll.Tasks = Pre.Tasks
     /\ Coll.NextId = Pre.NextId

\* an add was rejected for a content that differs from the existing one in case
C7_Witness ==
  /\ last.cmd = "add" /\ last.out = "duplicate"
  /\ \A i \in 1..Len(Pre.Tasks) : Pre.Tasks[i].Content # last.content

\* C8: an add of a non-duplicate content of 200 characters succeeds, an add of
\* a content of 201 characters fails as too long and changes nothing, whatever
\* the characters are.
C8_LimitIs200Characters ==
  last.cmd = "add" =>
    /\ ( /\ CharLen(last.content) = maxTaskLength
         /\ \A i \in 1..Len(Pre.Tasks) : ~EqualFold(Pre.Tasks[i].Content, last.content) )
       => last.out = "added"
    /\ CharLen(last.content) = maxTaskLength + 1
       => last.out = "too_long" /\ SameCollection(Coll, Pre)

ValidContent(c) == c # EmptyStr /\ ByteLen(c) <= maxTaskLength

\* C10: clear-all leaves no task and NextId = 1, and an add of a valid content
\* right after it assigns id 1.
C10_ClearAllRestartsIds ==
  /\ last.cmd = "clear-all" => Coll.Tasks = <<>> /\ Coll.NextId = 1
  /\ ( /\ prev.cmd = "clear-all"
       /\ last.cmd = "add" /\ ValidContent(last.content) )
     => /\ last.out = "added" /\ last.id = 1
        /\ Len(Coll.Tasks) = 1
        /\ Coll.Tasks[1].Id = 1

\* tasks had been added, clear-all ran, and the next add was accepted
C10_Witness ==
  /\ prev.cmd = "clear-all"
  /\ last.cmd = "add" /\ last.out = "added"
  /\ Len(assigned) >= 2

\* C11: saving a reachable collection and loading it again gives the same
\* tasks, in the same order and with the same fields, and the same NextId;
\* after an invocation that saved, the file loads as the list main held.
C11_SaveLoadRoundTrip ==
  LET back == loadTasks(saveTask(mem))
  IN /\ back.Tasks = mem.Tasks
     /\ back.NextId = mem.NextId
     /\ last.out \notin {"none", "usage"} => SameCollection(Coll, mem)

\* C12: complete-all gives every task that was not done done = true and one
\* and the same timestamp, leaves every done task as it was, and changes no
\* id, content, createdAt, order or NextId.
C12_CompleteAllOnlyCompletesPending ==
  last.cmd = "complete-all" =>
    /\ Len(Coll.Tasks) = Len(Pre.Tasks)
    /\ Coll.NextId = Pre.NextId
    /\ \E t \in 1..now :
         \A i \in 1..Len(Pre.Tasks) :
           /\ Coll.Tasks[i].Id = Pre.Tasks[i].Id
           /\ Coll.Tasks[i].Content = Pre.Tasks[i].Content
           /\ Coll.Tasks[i].CreatedAt = Pre.Tasks[i].CreatedAt
           /\ Coll.Tasks[i].Done
           /\ Pre.Tasks[i].Done => Coll.Tasks[i] = Pre.Tasks[i]
           /\ ~Pre.Tasks[i].Done => Coll.Tasks[i].CompletedAt = Format(t)

\* complete-all ran on a collection with a task done earlier and a pending one
C12_Witness ==
  /\ last.cmd = "complete-all"
  /\ \E i, j \in 1..Len(Pre.Tasks) :
       /\ Pre.Tasks[i].Done /\ ~Pre.Tasks[j].Done
       /\ Coll.Tasks[i].CompletedAt # Coll.Tasks[j].CompletedAt

\* C13: every task is pending (not done, completedAt empty) or completed
\* (done, completedAt set).
C13_DoneIffCompletedAt ==
  \A i \in 1..Len(Coll.Tasks) :
    Coll.Tasks[i].Done <=> Coll.Tasks[i].CompletedAt # EmptyStr

\* a completed task was toggled back to pending next to a completed one
C13_Witness ==
  /\ last.cmd = "toggle" /\ last.out = "toggled"
  /\ TaskOf(Pre, last.id).Done
  /\ ~TaskOf(Coll, last.id).Done
  /\ \E i \in 1..Len(Coll.Tasks) : Coll.Tasks[i].Done

\* C14: no two tasks have contents that are equal under case folding; edit
\* rejects a new content that equals the content of any task, the edited one
\* included, and leaves the collection unchanged.
C14_NoDuplicateContents ==
  /\ \A i, j \in 1..Len(Coll.Tasks) :
       i # j => ~EqualFold(Coll.Tasks[i].Content, Coll.Tasks[j].Content)
  /\ ( /\ last.cmd = "edit"
       /\ \E i \in 1..Len(Pre.Tasks) : EqualFold(Pre.Tasks[i].Content, last.content) )
     => /\ last.out \in {"invalid_id", "not_found", "duplicate"}
        /\ last.id \in IdsOf(Pre) => last.out = "duplicate"
        /\ SameCollection(Coll, Pre)

\* an edit changed only the case of the edited task's own text and was rejected
C14_Witness ==
  /\ last.cmd = "edit" /\ last.out = "duplicate"
  /\ TaskOf(Pre, last.id).Content # last.content
  /\ EqualFold(TaskOf(Pre, last.id).Content, last.content)

====
